---- MODULE Spec2Model ----
(***************************************************************************)
(* Model of the website-chat backend (src/main.py): the two process-wide   *)
(* maps website_cache and chat_sessions, the request handlers that run on  *)
(* the single asyncio event loop, and the executor threads that run the    *)
(* model call of a chat request.                                           *)
(*                                                                         *)
(* A handler runs on the event loop without interruption until it awaits.  *)
(* The only await in the program is the wait_for around run_in_executor    *)
(* in get_ai_response, so every handler is one atomic step except          *)
(*   - chat_with_content: one step up to the await, one step after it;      *)
(*   - extract_website: requests.get is a synchronous call made on the     *)
(*     event loop thread, so the handler keeps the loop for the whole       *)
(*     fetch.  It is split in a begin and an end step so that the time the  *)
(*     fetch takes, and what the executor threads do meanwhile, is visible. *)
(* Requests are numbered in the order the server takes them up.            *)
(***************************************************************************)
EXTENDS Integers, Sequences, FiniteSets, TLC

\* ---------------------------------------------------------------- bounds
MaxReqs == 3
MaxTime == 45
Urls == {"u1", "u2"}
Msgs == {"m1", "m2"}
Replies == {"a1"}
\* what a fetch can return: a title and a content, as its characters
Pages == {[title |-> "t1", content |-> <<"a", " ", "b">>],
          [title |-> "t2", content |-> <<"c">>]}
\* what a fetch of url can return: the page at u1 changes between fetches,
\* the page at any other url does not
PagesAt(url) == {p \in Pages : url = "u1" \/ p.title = "t1"}
MaxHist == 7
PreviewSlack == 3
MaxUrlLen == 5
MaxChats == 2
MaxPosts == 2
FetchOutcomes == {"ok", "request_error", "other_error"}

\* ------------------------------------------------------ program constants
\* asyncio.wait_for(..., timeout=30.0)
ModelTimeout == 30
\* the front-end's requests.post(f"{API_BASE_URL}/chat", ..., timeout=45)
ClientTimeout == 45

Reqs == 1..MaxReqs
\* the instants at which the clock is read: the start, the deadline of a
\* chat begun at the start, and a later one
Instants == {0, ModelTimeout, MaxTime}
Idle == 0
NoSid == <<"", 0>>
\* a well-formed session id that no extract-website call has returned
BogusSid == <<"nosuch", 0>>

VARIABLES
    website_cache,  \* session id -> [url, title, content, timestamp]
    chat_sessions,  \* session id -> sequence of chat exchanges
    now,            \* time.time(), in whole seconds
    loop,           \* the request whose handler occupies the event loop, or Idle
    n,              \* number of requests taken up so far
    req,            \* request -> its arguments, position and response
    worker,         \* request -> the executor thread running its _sync_ai_call
    pf,             \* one call of a pure function: its input and its result
    session_state,  \* st.session_state of the front-end (src/app.py)
    fe              \* the front-end's script runs: what they sent and showed

vars == <<website_cache, chat_sessions, now, loop, n, req, worker, pf,
          session_state, fe>>

\* ------------------------------------------------------------- helpers
Has(f, k) == k \in DOMAIN f
Put(f, k, v) == [x \in DOMAIN f \cup {k} |-> IF x = k THEN v ELSE f[x]]
Del(f, k) == [x \in DOMAIN f \ {k} |-> f[x]]

NoBody == [url |-> "", title |-> "", word_count |-> 0]
NewReq == [kind |-> "none", url |-> "", sid |-> NoSid, msg |-> "",
           phase |-> "new", status |-> 0, detail |-> "", resp |-> "",
           rsid |-> NoSid, deadline |-> 0, finAt |-> 0,
           fetch |-> "", attempts |-> 0, body |-> NoBody]
NewWorker == [st |-> "idle", text |-> "", doneAt |-> 0]

\* hashlib.md5(f"{url}_{int(time.time())}")[:12]: a token determined by the
\* url and the clock second, and by nothing else.  Distinct (url, second)
\* pairs are taken to give distinct tokens.
generate_session_id(url, t) == <<url, t>>

\* ids a client can hold: those returned by extract-website, and a made-up one
KnownSids == {req[r].rsid : r \in {q \in Reqs : req[q].rsid # NoSid}} \cup {BogusSid}

Done(q, status, detail, fin) ==
    [q EXCEPT !.phase = "done", !.status = status, !.detail = detail,
              !.finAt = fin]

\* the handlers without the membership test
SessionKnown_NoCheck(sid) == TRUE

\* ---------------------------------------------------------- session store
\* line 232 (and 274): the test that decides SessionNotFound
SessionKnown(sid) == Has(website_cache, sid)

\* lines 235-236: a cached session without a transcript gets an empty one
EnsureTranscript(cs, sid) == IF Has(cs, sid) THEN cs ELSE Put(cs, sid, <<>>)

\* lines 250-254
ChatExchange(msg, text, t) ==
    [user_message |-> msg, ai_response |-> text, timestamp |-> t]

\* the new exchange put in front of the transcript
AppendExchange_Prepend(cs, sid, ex) == [cs EXCEPT ![sid] = <<ex>> \o @]

\* line 256: chat_sessions[request.session_id].append(chat_exchange)
AppendExchange(cs, sid, ex) == [cs EXCEPT ![sid] = Append(@, ex)]

\* the exchange stored whether or not get_ai_response returned
TranscriptsAfterChat_Always(cs, sid, returned, ex) ==
    IF Has(cs, sid) THEN [cs EXCEPT ![sid] = Append(@, ex)] ELSE cs

\* lines 243-256: the append is reached only when get_ai_response returned
TranscriptsAfterChat(cs, sid, returned, ex) ==
    IF returned THEN AppendExchange(cs, sid, ex) ELSE cs

\* lines 198-203
CacheEntry(url, page, t) ==
    [url |-> url, title |-> page.title, content |-> page.content, timestamp |-> t]

\* lines 291-292 and 294-295: del if present
ClearStore(f, sid) == IF Has(f, sid) THEN Del(f, sid) ELSE f

\* ------------------------------------------------- prompt and preview
\* recent_history = chat_history[-5:]
HistoryWindow == 5
\* content_limit = 15000
ContentLimit == 15000
\* content[:500] ... if len(content) > 500
PreviewLimit == 500

Min(a, b) == IF a < b THEN a ELSE b
\* s[:k]
Take(s, k) == SubSeq(s, 1, Min(k, Len(s)))
Ellipsis == <<".", ".", ".">>
TruncationMarker == <<".", ".", ".", " ", "[", "c", "o", "n", "t", "e", "n", "t", " ",
                      "t", "r", "u", "n", "c", "a", "t", "e", "d", "]">>

\* the first five exchanges instead of the last five
RecentHistory_First(h) == Take(h, HistoryWindow)

\* line 127: chat_history[-5:]
RecentHistory(h) ==
    IF Len(h) > HistoryWindow
    THEN SubSeq(h, Len(h) - HistoryWindow + 1, Len(h))
    ELSE h

\* line 129: f"User: {chat['user_message']}\nAI: {chat['ai_response']}\n\n",
\* as its three lines
RenderExchange(x) ==
    << [who |-> "User", text |-> x.user_message],
       [who |-> "AI", text |-> x.ai_response],
       [who |-> "", text |-> ""] >>

RECURSIVE RenderAll(_)
\* lines 128-129: the loop over recent_history
RenderAll(h) ==
    IF h = <<>> THEN <<>> ELSE RenderExchange(Head(h)) \o RenderAll(Tail(h))

\* lines 125-129
HistoryContext(h) == IF h # <<>> THEN RenderAll(RecentHistory(h)) ELSE <<>>

\* lines 132-136
TruncateContent(c) ==
    IF Len(c) > ContentLimit THEN Take(c, ContentLimit) \o TruncationMarker ELSE c

\* lines 138-158: the parts of the prompt that vary
BuildPrompt(message, content, h) ==
    [content |-> TruncateContent(content),
     history |-> HistoryContext(h),
     question |-> message]

\* the marker added from 500 characters on instead of from 501
ContentPreview_OffByOne(c) ==
    IF Len(c) >= PreviewLimit THEN Take(c, PreviewLimit) \o Ellipsis ELSE c

\* line 215: content[:500] + "..." if len(content) > 500 else content
ContentPreview(c) ==
    IF Len(c) > PreviewLimit THEN Take(c, PreviewLimit) \o Ellipsis ELSE c

RECURSIVE CountWords(_, _)
\* the number of maximal runs of characters other than blanks in c, inword
\* telling whether the character before c belongs to a run
CountWords(c, inword) ==
    IF c = <<>> THEN 0
    ELSE IF Head(c) = " " THEN CountWords(Tail(c), FALSE)
    ELSE (IF inword THEN 0 ELSE 1) + CountWords(Tail(c), TRUE)

\* lines 209 and 283: len(content.split())
WordCount(c) == CountWords(c, FALSE)

\* get-chat-history that counts characters instead of words
WebsiteInfo_CharCount(entry) ==
    [url |-> entry.url, title |-> entry.title, word_count |-> Len(entry.content)]

\* lines 280-284
WebsiteInfo(entry) ==
    [url |-> entry.url, title |-> entry.title,
     word_count |-> WordCount(entry.content)]

\* lines 110-111: requests.get is called once
FetchAttempts == 1

\* a failed fetch reported like any other exception
ExtractFailure_Internal(outcome) == [status |-> 500, detail |-> "internal"]

\* lines 117-118 and 221-225: what extract-website answers when the fetch or
\* the extraction raised
ExtractFailure(outcome) ==
    IF outcome = "request_error"
    THEN [status |-> 400, detail |-> "fetch_error"]
    ELSE [status |-> 500, detail |-> "internal"]

\* ------------------------------------------------------------ event loop
\* line 192 -> 111: requests.get runs on the event loop thread
LoopWhileFetching(r) == r

\* model.generate_content called in the handler itself
LoopWhileAwaiting_Inline(r) == r

\* lines 168-171: the model call runs in an executor thread and the handler
\* awaits it, which gives the event loop back
LoopWhileAwaiting(r) == Idle

\* lines 168-175, asyncio.wait_for: what the handler can resume with.  When
\* the thread has finished before the deadline the handler gets its result;
\* when the deadline has passed and the thread is still running it gets
\* TimeoutError.  When the loop gets to the handler only after both have
\* happened, the result wins up to Python 3.11 (wait_for returns
\* fut.result() if fut.done()) and the timeout wins from 3.12 on (the
\* timeout has cancelled the task): either can be the outcome.
WaitForOutcomes(w, t, deadline) ==
    (IF w.st \in {"ok", "failed"} THEN {"result"} ELSE {})
    \cup (IF t >= deadline THEN {"timeout"} ELSE {})

Awaiting == {r \in Reqs : req[r].phase = "awaiting"}

Init ==
    /\ website_cache = <<>>
    /\ chat_sessions = <<>>
    /\ now = 0
    /\ loop = Idle
    /\ n = 0
    /\ req = [r \in Reqs |-> NewReq]
    /\ worker = [r \in Reqs |-> NewWorker]

\* ---------------------------------------------------------------- handlers
\* GET /health, lines 299-301
health_check ==
    /\ loop = Idle /\ n < MaxReqs
    /\ n' = n + 1
    /\ req' = [req EXCEPT ![n + 1] =
                 Done([NewReq EXCEPT !.kind = "health"], 200, "ok", n + 1)]
    /\ UNCHANGED <<website_cache, chat_sessions, now, loop, worker>>

\* GET /chat-history/{session_id}, lines 270-285
get_chat_history(sid) ==
    /\ loop = Idle /\ n < MaxReqs
    /\ n' = n + 1
    /\ req' = [req EXCEPT ![n + 1] =
                 IF Has(website_cache, sid)
                 THEN Done([NewReq EXCEPT
                              !.kind = "history", !.sid = sid,
                              !.body = [history |->
                                          IF Has(chat_sessions, sid)
                                          THEN chat_sessions[sid] ELSE <<>>,
                                        website_info |->
                                          WebsiteInfo(website_cache[sid])]],
                           200, "ok", n + 1)
                 ELSE Done([NewReq EXCEPT !.kind = "history", !.sid = sid],
                           404, "not_found", n + 1)]
    /\ UNCHANGED <<website_cache, chat_sessions, now, loop, worker>>

\* clear-session that reports a missing session
clear_session_Strict(sid) ==
    /\ loop = Idle /\ n < MaxReqs
    /\ n' = n + 1
    /\ website_cache' = IF Has(website_cache, sid) THEN Del(website_cache, sid)
                        ELSE website_cache
    /\ chat_sessions' = IF Has(chat_sessions, sid) THEN Del(chat_sessions, sid)
                        ELSE chat_sessions
    /\ req' = [req EXCEPT ![n + 1] =
                 IF Has(website_cache, sid)
                 THEN Done([NewReq EXCEPT !.kind = "clear", !.sid = sid],
                           200, "ok", n + 1)
                 ELSE Done([NewReq EXCEPT !.kind = "clear", !.sid = sid],
                           404, "not_found", n + 1)]
    /\ UNCHANGED <<now, loop, worker>>

\* clear-session that forgets the transcript map
clear_session_CacheOnly(sid) ==
    /\ loop = Idle /\ n < MaxReqs
    /\ n' = n + 1
    /\ website_cache' = IF Has(website_cache, sid) THEN Del(website_cache, sid)
                        ELSE website_cache
    /\ req' = [req EXCEPT ![n + 1] =
                 Done([NewReq EXCEPT !.kind = "clear", !.sid = sid],
                      200, "ok", n + 1)]
    /\ UNCHANGED <<chat_sessions, now, loop, worker>>

\* DELETE /session/{session_id}, lines 287-297
clear_session(sid) ==
    /\ loop = Idle /\ n < MaxReqs
    /\ n' = n + 1
    /\ website_cache' = ClearStore(website_cache, sid)
    /\ chat_sessions' = ClearStore(chat_sessions, sid)
    /\ req' = [req EXCEPT ![n + 1] =
                 Done([NewReq EXCEPT !.kind = "clear", !.sid = sid],
                      200, "ok", n + 1)]
    /\ UNCHANGED <<now, loop, worker>>

\* POST /extract-website, lines 183-192: up to and into requests.get
extract_website_begin(url) ==
    /\ loop = Idle /\ n < MaxReqs
    /\ n' = n + 1
    /\ req' = [req EXCEPT ![n + 1] =
                 [NewReq EXCEPT !.kind = "extract", !.url = url,
                                !.phase = "fetching",
                                !.attempts = FetchAttempts]]
    /\ loop' = LoopWhileFetching(n + 1)
    /\ UNCHANGED <<website_cache, chat_sessions, now, worker>>

\* POST /extract-website, lines 104-118 and 192-225: requests.get returns or
\* raises, and the handler runs to its end
extract_website_end(r, outcome, page) ==
    /\ req[r].phase = "fetching"
    /\ loop = r
    /\ loop' = Idle
    /\ IF outcome = "ok"
       THEN LET sid == generate_session_id(req[r].url, now) IN
            /\ website_cache' =
                 Put(website_cache, sid, CacheEntry(req[r].url, page, now))
            /\ chat_sessions' = Put(chat_sessions, sid, <<>>)
            /\ req' = [req EXCEPT ![r] =
                         Done([@ EXCEPT
                                 !.rsid = sid, !.fetch = outcome,
                                 !.body = [url |-> req[r].url,
                                           title |-> page.title,
                                           content_preview |->
                                             ContentPreview(page.content),
                                           word_count |->
                                             WordCount(page.content)]],
                              200, "ok", n)]
       ELSE /\ req' = [req EXCEPT ![r] =
                         Done([@ EXCEPT !.fetch = outcome],
                              ExtractFailure(outcome).status,
                              ExtractFailure(outcome).detail, n)]
            /\ UNCHANGED <<website_cache, chat_sessions>>
    /\ UNCHANGED <<now, n, worker>>

\* POST /chat, lines 227-247: up to the await of the model call
chat_with_content_begin(sid, msg) ==
    /\ loop = Idle /\ n < MaxReqs
    /\ n' = n + 1
    /\ LET r == n + 1
           q == [NewReq EXCEPT !.kind = "chat", !.sid = sid, !.msg = msg]
       IN
       IF ~SessionKnown(sid)
       THEN /\ req' = [req EXCEPT ![r] = Done(q, 404, "not_found", r)]
            /\ UNCHANGED <<website_cache, chat_sessions, loop, worker>>
       ELSE /\ chat_sessions' = EnsureTranscript(chat_sessions, sid)
            /\ IF ~Has(website_cache, sid)
               \* line 239 raises KeyError, caught at line 267
               THEN /\ req' = [req EXCEPT ![r] = Done(q, 500, "chat_error", r)]
                    /\ UNCHANGED <<loop, worker>>
               ELSE /\ req' = [req EXCEPT ![r] =
                                 [q EXCEPT !.phase = "awaiting",
                                           !.deadline = now + ModelTimeout]]
                    /\ worker' = [worker EXCEPT ![r].st = "running"]
                    /\ loop' = LoopWhileAwaiting(r)
            /\ UNCHANGED website_cache
    /\ UNCHANGED now

\* lines 123-164, _sync_ai_call in its executor thread: model.generate_content
\* returns a text or raises.  A call that hangs never takes this step.
sync_ai_call(r, ok, text) ==
    /\ worker[r].st = "running"
    /\ worker' = [worker EXCEPT ![r] =
                    [st |-> IF ok THEN "ok" ELSE "failed",
                     text |-> IF ok THEN text ELSE "",
                     doneAt |-> now]]
    /\ UNCHANGED <<website_cache, chat_sessions, now, loop, n, req>>

\* POST /chat, lines 166-177 and 249-268: the handler resumes from the await
chat_with_content_resume(r, outcome) ==
    /\ loop = Idle
    /\ req[r].phase = "awaiting"
    /\ outcome \in WaitForOutcomes(worker[r], now, req[r].deadline)
    /\ LET sid == req[r].sid
           ex == ChatExchange(req[r].msg, worker[r].text, now)
       IN
       IF outcome = "timeout"
       THEN /\ req' = [req EXCEPT ![r] = Done(@, 408, "timeout", n)]
            /\ chat_sessions' = TranscriptsAfterChat(chat_sessions, sid, FALSE, ex)
       ELSE IF worker[r].st = "failed"
       THEN /\ req' = [req EXCEPT ![r] = Done(@, 500, "model_error", n)]
            /\ chat_sessions' = TranscriptsAfterChat(chat_sessions, sid, FALSE, ex)
       ELSE IF ~Has(chat_sessions, sid)
       \* line 256 raises KeyError, caught at line 267
       THEN /\ req' = [req EXCEPT ![r] = Done(@, 500, "chat_error", n)]
            /\ UNCHANGED chat_sessions
       ELSE /\ req' = [req EXCEPT ![r] =
                         Done([@ EXCEPT !.resp = worker[r].text], 200, "ok", n)]
            /\ chat_sessions' = TranscriptsAfterChat(chat_sessions, sid, TRUE, ex)
    /\ UNCHANGED <<website_cache, now, loop, n, worker>>

\* Time passes.  An idle event loop runs a handler as soon as its future is
\* done or its deadline is reached, so with the loop idle the clock does not
\* move past that point; while a handler holds the loop nothing is resumed
\* and the clock moves freely.
Tick(t) ==
    /\ t > now
    /\ loop = Idle =>
         \A r \in Awaiting :
             worker[r].st = "running" /\ t <= req[r].deadline
    /\ now' = t
    /\ UNCHANGED <<website_cache, chat_sessions, loop, n, req, worker>>

Next ==
    \/ health_check
    \/ \E sid \in KnownSids : get_chat_history(sid)
    \/ \E sid \in KnownSids : clear_session(sid)
    \/ \E url \in Urls : extract_website_begin(url)
    \/ \E r \in Reqs, o \in FetchOutcomes : \E p \in PagesAt(req[r].url) :
           extract_website_end(r, o, p)
    \/ \E sid \in KnownSids, msg \in Msgs : chat_with_content_begin(sid, msg)
    \/ \E r \in Reqs, ok \in BOOLEAN, text \in Replies : sync_ai_call(r, ok, text)
    \/ \E r \in Reqs, o \in {"result", "timeout"} : chat_with_content_resume(r, o)
    \/ \E t \in Instants : Tick(t)

RECURSIVE SeqsUpTo(_, _)
\* the sequences over S of length at most k
SeqsUpTo(S, k) ==
    IF k = 0 THEN {<<>>}
    ELSE LET shorter == SeqsUpTo(S, k - 1) IN
         shorter \cup {Append(q, x) : q \in shorter, x \in S}

\* ===================================================================
\* The front-end (src/app.py): one browser session of the Streamlit script
\* ===================================================================

\* the characters a URL is typed from: a letter and the delimiters
UrlChars == {"h", ":", "/", "@"}
UrlInputs == SeqsUpTo(UrlChars, MaxUrlLen)
\* the URLs typed in the browser session: none, a word, a scheme://host
FrontUrls == {<<>>, <<"h">>, <<"h", ":", "/", "/", "h">>}
Alpha == {"h"}
scheme_chars == {"h"}

\* str.find, counting from 1; 0 when c does not occur
Find(s, c) ==
    IF \E i \in 1..Len(s) : s[i] = c
    THEN CHOOSE i \in 1..Len(s) : s[i] = c /\ \A j \in 1..(i - 1) : s[j] # c
    ELSE 0
Drop(s, k) == SubSeq(s, k + 1, Len(s))
HasChar(s, c) == \E i \in 1..Len(s) : s[i] = c
\* str.rpartition(c)[2]
AfterLast(s, c) ==
    IF HasChar(s, c)
    THEN Drop(s, CHOOSE i \in 1..Len(s) : s[i] = c /\ \A j \in (i + 1)..Len(s) : s[j] # c)
    ELSE s
\* str.partition(c)[0]
BeforeFirst(s, c) == IF HasChar(s, c) THEN Take(s, Find(s, c) - 1) ELSE s

\* urllib.parse.urlparse, as far as is_valid_url reads its result
urlparse(url) ==
    LET i == Find(url, ":")
        hasScheme == /\ i >= 2
                     /\ url[1] \in Alpha
                     /\ \A k \in 1..(i - 1) : url[k] \in scheme_chars
        rest == IF hasScheme THEN Drop(url, i) ELSE url
        slashes == Len(rest) >= 2 /\ rest[1] = "/" /\ rest[2] = "/"
        after == Drop(rest, 2)
        netloc == IF slashes THEN BeforeFirst(after, "/") ELSE <<>>
    IN [scheme |-> IF hasScheme THEN Take(url, i - 1) ELSE <<>>,
        netloc |-> netloc,
        raises |-> \/ HasChar(netloc, "[") /\ ~HasChar(netloc, "]")
                   \/ HasChar(netloc, "]") /\ ~HasChar(netloc, "[")]
\* the hostname of a parse result: netloc without user info and port
hostname(netloc) == BeforeFirst(AfterLast(netloc, "@"), ":")

\* app.py lines 16-22
is_valid_url(url) ==
    LET result == urlparse(url)
    IN ~result.raises /\ result.scheme # <<>> /\ result.netloc # <<>>

Placeholder == "Thinking..."
\* what POST /chat can answer, or fail with
ChatReplies ==
    {[ok |-> TRUE, text |-> t, error |-> ""] : t \in Replies \cup {Placeholder}}
    \cup {[ok |-> FALSE, text |-> "", error |-> "e1"]}
ErrorText(error) == "Sorry, there was an error: " \o error
NoInput == ""
NoPress == [pressed |-> FALSE, url |-> <<>>, sent |-> FALSE, error |-> ""]

FrontInit ==
    /\ session_state = [session_id |-> "", website_loaded |-> FALSE,
                        summary_generated |-> FALSE, chat_history |-> <<>>,
                        processing |-> FALSE]
    /\ fe = [rerun |-> FALSE, posts |-> <<>>, press |-> NoPress]

\* the placeholder test of lines 184-186
PendingMessage(ss) ==
    /\ ss.chat_history # <<>>
    /\ ss.chat_history[Len(ss.chat_history)].ai_response = Placeholder
    /\ ~ss.processing

\* lines 146-205 of one script run: the chat section. f.posts counts the
\* POST /chat requests sent for each entry of chat_history.
ChatSection(ss, f, user_input, reply) ==
    IF ~(ss.website_loaded /\ ss.summary_generated)
    THEN [ss |-> ss, fe |-> f]
    ELSE IF user_input # NoInput /\ ~ss.processing
    THEN [ss |-> [ss EXCEPT !.chat_history =
                    Append(@, [user_message |-> user_input,
                               ai_response |-> Placeholder])],
          fe |-> [f EXCEPT !.posts = Append(@, 0), !.rerun = TRUE]]
    ELSE IF PendingMessage(ss)
    THEN LET k == Len(ss.chat_history) IN
         [ss |-> [ss EXCEPT !.chat_history[k].ai_response =
                                IF reply.ok THEN reply.text
                                ELSE ErrorText(reply.error),
                            !.processing = FALSE],
          fe |-> [f EXCEPT !.posts[k] = @ + 1, !.rerun = TRUE]]
    ELSE [ss |-> ss, fe |-> f]

\* lines 112-144 of one script run: the Load Website button was pressed
LoadSection(ss, f, url, extracted, summarised) ==
    IF url = <<>>
    THEN [ss |-> ss,
          fe |-> [f EXCEPT !.press = [pressed |-> TRUE, url |-> url, sent |-> FALSE,
                                      error |-> "Please enter a URL"]]]
    ELSE IF ~is_valid_url(url)
    THEN [ss |-> ss,
          fe |-> [f EXCEPT !.press = [pressed |-> TRUE, url |-> url, sent |-> FALSE,
                                      error |-> "Please enter a valid URL"]]]
    ELSE IF ~extracted
    THEN [ss |-> [ss EXCEPT !.processing = FALSE],
          fe |-> [f EXCEPT !.press = [pressed |-> TRUE, url |-> url, sent |-> TRUE,
                                      error |-> "Error"]]]
    ELSE [ss |-> [ss EXCEPT !.session_id = "s1", !.website_loaded = TRUE,
                            !.chat_history = <<>>,
                            !.summary_generated = summarised,
                            !.processing = FALSE],
          fe |-> [f EXCEPT !.posts = <<>>,
                           !.press = [pressed |-> TRUE, url |-> url, sent |-> TRUE,
                                      error |-> ""]]]

\* a run that would send one more POST /chat than the model follows
PostsExhausted ==
    PendingMessage(session_state) /\ fe.posts[Len(fe.posts)] >= MaxPosts

\* a script run started by the Load Website button
LoadWebsite(url, extracted, summarised, reply) ==
    /\ ~fe.rerun /\ ~session_state.processing /\ ~PostsExhausted
    /\ LET l == LoadSection(session_state, [fe EXCEPT !.press = NoPress],
                            url, extracted, summarised)
           c == ChatSection(l.ss, l.fe, NoInput, reply)
       IN session_state' = c.ss /\ fe' = c.fe
    /\ UNCHANGED <<website_cache, chat_sessions, now, loop, n, req, worker, pf>>

\* a script run started by the chat input
SubmitChat(msg, reply) ==
    /\ ~fe.rerun /\ ~PostsExhausted
    /\ session_state.website_loaded /\ session_state.summary_generated
    /\ Len(session_state.chat_history) < MaxChats
    /\ LET c == ChatSection(session_state, [fe EXCEPT !.press = NoPress], msg, reply)
       IN session_state' = c.ss /\ fe' = c.fe
    /\ UNCHANGED <<website_cache, chat_sessions, now, loop, n, req, worker, pf>>

\* a script run started by st.rerun()
Rerun(reply) ==
    /\ fe.rerun /\ ~PostsExhausted
    /\ LET c == ChatSection(session_state,
                            [fe EXCEPT !.press = NoPress, !.rerun = FALSE],
                            NoInput, reply)
       IN session_state' = c.ss /\ fe' = c.fe
    /\ UNCHANGED <<website_cache, chat_sessions, now, loop, n, req, worker, pf>>

FrontNext ==
    \/ \E url \in FrontUrls, extracted, summarised \in BOOLEAN, reply \in ChatReplies :
           LoadWebsite(url, extracted, summarised, reply)
    \/ \E msg \in Msgs, reply \in ChatReplies : SubmitChat(msg, reply)
    \/ \E reply \in ChatReplies : Rerun(reply)

\* the server: no pure function is called on its own and no front-end runs
NoCall == [fn |-> "none"]
\* the server with no request yet, the browser session before its first run
SpecInit == Init /\ pf = NoCall /\ FrontInit
Spec == SpecInit /\ [][Next /\ UNCHANGED <<pf, session_state, fe>>]_vars

\* the front-end, with a backend that can answer anything
FrontSpec == SpecInit /\ [][FrontNext]_vars

\* ===================================================================
\* The pure functions of the handlers, each applied to inputs of its own
\* ===================================================================

PromptExchanges == {ChatExchange(m, a, 0) : m \in Msgs, a \in Replies}
PromptInputs ==
    {[fn |-> "prompt", message |-> "m1", content |-> <<"c">>, history |-> h,
      done |-> FALSE, out |-> <<>>] : h \in SeqsUpTo(PromptExchanges, MaxHist)}
\* contents shorter than, as long as and longer than the preview limit, with
\* one character that differs from the others
PreviewLens ==
    (0..PreviewSlack) \cup ((PreviewLimit - PreviewSlack)..(PreviewLimit + PreviewSlack))
PreviewInputs ==
    {[fn |-> "preview",
      content |-> [i \in 1..len |-> IF i = mark THEN "b" ELSE "a"],
      done |-> FALSE, out |-> <<>>] :
        len \in PreviewLens,
        mark \in {0, 1, PreviewLimit - 1, PreviewLimit, PreviewLimit + 1}}

\* presses of the Load Website button, one for each URL that can be typed
LoadInputs ==
    {[fn |-> "load", url |-> url, done |-> FALSE, out |-> NoPress] : url \in UrlInputs}

PureInit ==
    Init /\ FrontInit /\ pf \in PromptInputs \cup PreviewInputs \cup LoadInputs

\* _sync_ai_call builds its prompt
CallBuildPrompt ==
    /\ pf.fn = "prompt" /\ ~pf.done
    /\ pf' = [pf EXCEPT !.done = TRUE,
                        !.out = BuildPrompt(pf.message, pf.content, pf.history)]
    /\ UNCHANGED <<website_cache, chat_sessions, now, loop, n, req, worker,
                   session_state, fe>>

\* extract_website builds the content preview of its response
CallContentPreview ==
    /\ pf.fn = "preview" /\ ~pf.done
    /\ pf' = [pf EXCEPT !.done = TRUE, !.out = ContentPreview(pf.content)]
    /\ UNCHANGED <<website_cache, chat_sessions, now, loop, n, req, worker,
                   session_state, fe>>

\* main handles a press of Load Website in a fresh browser session
CallLoadSection ==
    /\ pf.fn = "load" /\ ~pf.done
    /\ \E extracted, summarised \in BOOLEAN :
         pf' = [pf EXCEPT !.done = TRUE,
                          !.out = LoadSection(session_state, fe, pf.url,
                                              extracted, summarised).fe.press]
    /\ UNCHANGED <<website_cache, chat_sessions, now, loop, n, req, worker,
                   session_state, fe>>

PureNext ==
    \/ CallBuildPrompt
    \/ CallContentPreview
    \/ CallLoadSection

PureSpec == PureInit /\ [][PureNext]_vars

\* the lines of a history context that are not blank
RECURSIVE NonBlank(_)
NonBlank(ls) ==
    IF ls = <<>> THEN <<>>
    ELSE IF Head(ls).who = "" THEN NonBlank(Tail(ls))
    ELSE <<Head(ls)>> \o NonBlank(Tail(ls))

\* C11: the history part of the prompt built over a transcript of length k
\* is, blank lines aside, the last min(k, 5) exchanges, oldest first, each as
\* its user line followed by its AI line, and nothing else.
C11_LastFiveExchanges ==
    (pf.fn = "prompt" /\ pf.done) =>
        LET h == pf.history
            k == Len(h)
            w == Min(k, 5)
            ls == NonBlank(pf.out.history)
        IN /\ Len(ls) = 2 * w
           /\ \A j \in 1..w :
                /\ ls[2 * j - 1] = [who |-> "User", text |-> h[k - w + j].user_message]
                /\ ls[2 * j] = [who |-> "AI", text |-> h[k - w + j].ai_response]

\* a prompt was built over more than five exchanges, the oldest of which
\* differs from the oldest of the last five
C11_Witness ==
    /\ pf.fn = "prompt" /\ pf.done
    /\ Len(pf.history) > 5
    /\ pf.history[1] # pf.history[Len(pf.history) - 4]

\* C12 as claimed: the preview is the first 500 characters of the content and
\* has at most 500 characters.
C12_PreviewAtMost500 ==
    (pf.fn = "preview" /\ pf.done) =>
        /\ pf.out = Take(pf.content, 500)
        /\ Len(pf.out) <= 500

\* C12 as amended: a content of at most 500 characters is its own preview; a
\* longer one gives its first 500 characters followed by "...", 503 in all.
C12_PreviewWithEllipsis ==
    (pf.fn = "preview" /\ pf.done) =>
        /\ Take(pf.out, 500) = Take(pf.content, 500)
        /\ Len(pf.content) <= 500 => pf.out = pf.content
        /\ Len(pf.content) > 500 =>
              /\ Len(pf.out) = 503
              /\ SubSeq(pf.out, 501, 503) = <<".", ".", ".">>

\* a preview was made of a content longer than 500 characters
C12_Witness ==
    /\ pf.fn = "preview" /\ pf.done
    /\ Len(pf.content) > 500

\* ===================================================================
\* Properties
\* ===================================================================
\* request r is taken up in this step
Arrives(r) == req[r].phase = "new" /\ req'[r].phase # "new"
\* request r gets its response in this step
Finishes(r) == req[r].phase # "done" /\ req'[r].phase = "done"
StoreUnchanged == website_cache' = website_cache /\ chat_sessions' = chat_sessions
IsPrefix(a, b) == Len(a) <= Len(b) /\ SubSeq(b, 1, Len(a)) = a

\* C1: a chat request whose session_id is not in website_cache when it
\* arrives is answered 404 in that same step, leaves website_cache and
\* chat_sessions as they were, and no model call is ever started for it.
C1_Step ==
    \A r \in Reqs :
        (Arrives(r) /\ req'[r].kind = "chat" /\ ~Has(website_cache, req'[r].sid))
        => /\ req'[r].phase = "done"
           /\ req'[r].status = 404
           /\ worker'[r].st = "idle"
           /\ StoreUnchanged
           /\ ~Has(chat_sessions', req'[r].sid)
C1_NeverInvoked ==
    \A r \in Reqs :
        (req[r].kind = "chat" /\ req[r].status = 404) => worker[r].st = "idle"
C1_UnknownSessionNotFound == []C1_NeverInvoked /\ [][C1_Step]_vars

\* a chat on a made-up id was answered 404 while another session is stored
C1_Witness ==
    \E r \in Reqs :
        /\ req[r].kind = "chat" /\ req[r].sid = BogusSid /\ req[r].status = 404
        /\ \E s \in DOMAIN website_cache : s # BogusSid

\* the requests that have named or been given session id s
Involving(s) ==
    {r \in Reqs : req[r].phase # "new" /\ (req[r].sid = s \/ req[r].rsid = s)}
\* e is a successful extract-website, and everything else that ever involved
\* its session is a chat sent after it that succeeded, each chat answered
\* before the next was sent
SequentialChats(e) ==
    /\ req[e].kind = "extract" /\ req[e].status = 200
    /\ LET others == Involving(req[e].rsid) \ {e} IN
       /\ \A r \in others :
            /\ r > e /\ req[r].kind = "chat"
            /\ req[r].phase = "done" /\ req[r].status = 200
       /\ \A r1, r2 \in others : r1 < r2 => req[r1].finAt < r2
\* position of chat r among the chats of e's session
ChatIndex(e, r) ==
    Cardinality({q \in Involving(req[e].rsid) \ {e} : q <= r})

\* C2: after n chats sent one after another, all successful, on a freshly
\* extracted session, the transcript has length n and its i-th exchange is
\* the i-th message with the response returned for it.
C2_SequentialTranscript ==
    \A e \in Reqs :
        SequentialChats(e) =>
            LET s == req[e].rsid
                others == Involving(s) \ {e}
            IN /\ Has(chat_sessions, s)
               /\ Len(chat_sessions[s]) = Cardinality(others)
               /\ \A r \in others :
                    LET x == chat_sessions[s][ChatIndex(e, r)] IN
                    /\ x.user_message = req[r].msg
                    /\ x.ai_response = req[r].resp

\* two sequential chats with different messages have been answered
C2_Witness ==
    \E e \in Reqs :
        /\ SequentialChats(e)
        /\ \E r1, r2 \in Involving(req[e].rsid) \ {e} :
             r1 < r2 /\ req[r1].msg # req[r2].msg

\* the step is clear-session called for s
ClearStepOn(s) ==
    \E r \in Reqs : Arrives(r) /\ req'[r].kind = "clear" /\ req'[r].sid = s

\* C3: unless the step is clear-session for s, the transcript of s after the
\* step has the transcript of s before the step as a prefix.
C3_Step ==
    \A s \in DOMAIN chat_sessions :
        ~ClearStepOn(s) =>
            Has(chat_sessions', s) /\ IsPrefix(chat_sessions[s], chat_sessions'[s])
C3_AppendOnly == [][C3_Step]_vars

\* C4: two successful extract-website requests never return the same
\* sessionId, and the id returned is not one already in the store.
C4_DistinctIds ==
    \A r1, r2 \in Reqs :
        (r1 # r2 /\ req[r1].rsid # NoSid /\ req[r2].rsid # NoSid)
        => req[r1].rsid # req[r2].rsid
C4_FreshStep ==
    \A r \in Reqs :
        (Finishes(r) /\ req[r].kind = "extract" /\ req'[r].status = 200)
        => ~Has(website_cache, req'[r].rsid)
C4_UniqueSessionIds == []C4_DistinctIds /\ [][C4_FreshStep]_vars

\* C5: a chat whose model call returned and whose session is absent from
\* chat_sessions when the exchange is to be appended is answered 404; so is a
\* chat whose session is absent on arrival.
C5_Step ==
    \A r \in Reqs :
        /\ (Arrives(r) /\ req'[r].kind = "chat" /\ ~Has(website_cache, req'[r].sid))
           => req'[r].status = 404
        /\ (/\ Finishes(r) /\ req[r].phase = "awaiting"
            /\ worker[r].st = "ok" /\ req'[r].status # 408
            /\ ~Has(chat_sessions, req[r].sid))
           => req'[r].status = 404
C5_AbsentSessionNotFound == [][C5_Step]_vars

\* chats for which a model call was started and that have been answered
AnsweredModelChats ==
    {r \in Reqs : req[r].kind = "chat" /\ req[r].phase = "done"
                  /\ worker[r].st # "idle"}

\* C6: a chat is answered 408 exactly when its deadline passed before its
\* executor thread finished (a thread finishing in the very second of the
\* deadline may count either way), and a model call that failed in time is
\* answered 500.
C6_TimeoutIffDeadlineFirst ==
    \A r \in AnsweredModelChats :
        /\ req[r].status = 408 =>
              (worker[r].st = "running" \/ worker[r].doneAt >= req[r].deadline)
        /\ req[r].status # 408 =>
              (worker[r].st # "running" /\ worker[r].doneAt <= req[r].deadline)
        /\ (req[r].status # 408 /\ worker[r].st = "failed") => req[r].status = 500

\* every stored exchange has its message, its response and its timestamp
CompleteExchange(x) ==
    /\ x.user_message \in Msgs
    /\ x.ai_response \in Replies
    /\ x.timestamp \in Instants
C7_Complete ==
    \A s \in DOMAIN chat_sessions :
        \A i \in 1..Len(chat_sessions[s]) : CompleteExchange(chat_sessions[s][i])
C7_Step ==
    \* a chat that is answered with anything but 200 changes nothing
    /\ \A r \in Reqs :
         (Finishes(r) /\ req'[r].kind = "chat" /\ req'[r].status # 200)
         => StoreUnchanged
    \* an executor thread that finishes changes nothing
    /\ \A r \in Reqs :
         (worker[r].st = "running" /\ worker'[r].st # "running") => StoreUnchanged
    \* a transcript grows only by one exchange, in the step that answers the
    \* chat it belongs to with 200
    /\ \A s \in DOMAIN chat_sessions :
         (Has(chat_sessions', s) /\ Len(chat_sessions'[s]) > Len(chat_sessions[s]))
         => /\ Len(chat_sessions'[s]) = Len(chat_sessions[s]) + 1
            /\ \E r \in Reqs :
                 /\ Finishes(r) /\ req'[r].status = 200 /\ req[r].sid = s
                 /\ chat_sessions'[s][Len(chat_sessions'[s])] =
                      ChatExchange(req[r].msg, req'[r].resp, now)

\* C7: a chat that does not succeed leaves the store unchanged, every stored
\* exchange is complete and is stored in one step, and an executor thread
\* never writes to the store.
C7_AtomicAppend == []C7_Complete /\ [][C7_Step]_vars

\* a chat timed out, its thread finished afterwards with a text, and the
\* transcript of its session is still empty
C7_Witness ==
    \E r \in Reqs :
        /\ req[r].kind = "chat" /\ req[r].status = 408
        /\ worker[r].st = "ok"
        /\ Has(chat_sessions, req[r].sid) /\ chat_sessions[req[r].sid] = <<>>

\* C8: clear-session always answers 200 and leaves the id in neither map
\* and every other session as it was; on an id that is in neither map it
\* changes nothing; chat and get-history on an id that is not in the store are
\* answered 404.
C8_Step ==
    \A r \in Reqs :
        /\ (Arrives(r) /\ req'[r].kind = "clear") =>
              LET s == req'[r].sid IN
              /\ req'[r].phase = "done" /\ req'[r].status = 200
              /\ ~Has(website_cache', s) /\ ~Has(chat_sessions', s)
              /\ website_cache' = Del(website_cache, s)
              /\ chat_sessions' = Del(chat_sessions, s)
              /\ (~Has(website_cache, s) /\ ~Has(chat_sessions, s)) => StoreUnchanged
        /\ (Arrives(r) /\ req'[r].kind \in {"chat", "history"}
            /\ ~Has(website_cache, req'[r].sid))
           => req'[r].status = 404
C8_ClearIdempotent == [][C8_Step]_vars

\* a session was extracted and then cleared twice
C8_Witness ==
    \E e, c1, c2 \in Reqs :
        /\ e < c1 /\ c1 < c2
        /\ req[e].kind = "extract" /\ req[e].status = 200
        /\ req[c1].kind = "clear" /\ req[c1].sid = req[e].rsid /\ req[c1].status = 200
        /\ req[c2].kind = "clear" /\ req[c2].sid = req[e].rsid /\ req[c2].status = 200
        /\ ~Has(website_cache, req[e].rsid) /\ ~Has(chat_sessions, req[e].rsid)

\* C9: a chat waiting for its model call does not hold the event loop: the
\* loop is idle, or held by the fetch of an extract-website request, and
\* when it is idle every kind of request can be taken up.
C9_ModelCallOffloaded ==
    \A r \in Awaiting :
        /\ loop # r
        /\ loop = Idle \/ req[loop].phase = "fetching"
        /\ (loop = Idle /\ n < MaxReqs) =>
              /\ ENABLED health_check
              /\ \A sid \in KnownSids :
                    /\ ENABLED get_chat_history(sid)
                    /\ ENABLED clear_session(sid)
                    /\ \A m \in Msgs : ENABLED chat_with_content_begin(sid, m)
              /\ \A u \in Urls : ENABLED extract_website_begin(u)

\* while a chat is waiting for a model call that has not returned, a request
\* taken up after it has been answered
C9_Witness ==
    \E r \in Awaiting, q \in Reqs :
        /\ worker[r].st = "running"
        /\ q > r /\ req[q].phase = "done" /\ req[q].status = 200

\* C10: while an extract-website request is fetching, the event loop is free
\* for other requests.
C10_FetchLeavesLoopFree ==
    \A r \in Reqs : req[r].phase = "fetching" => loop = Idle

\* a clear-session for s, or an extract-website that returned s, was taken up
\* after request a and before request b
TouchedBetween(s, a, b) ==
    \E r \in Reqs :
        /\ a < r /\ r < b
        /\ \/ req[r].kind = "clear" /\ req[r].sid = s
           \/ req[r].kind = "extract" /\ req[r].rsid = s
\* a chat on s was answered 200 after request a was taken up and before
\* request b was
ChatSucceededBetween(s, a, b) ==
    \E c \in Reqs :
        /\ req[c].kind = "chat" /\ req[c].sid = s /\ req[c].status = 200
        /\ req[c].finAt >= a /\ req[c].finAt < b

\* C13: a get-chat-history for the id returned by an extract-website, with
\* no clear-session for that id and no extract-website returning it in
\* between, is answered 200 with the url, title and word count of the extract
\* response, and with an empty history if no chat on the id has succeeded
\* since.
C13_GetReturnsCreated ==
    \A e, h \in Reqs :
        (/\ req[e].kind = "extract" /\ req[e].status = 200
         /\ req[h].kind = "history" /\ req[h].sid = req[e].rsid
         /\ e < h
         /\ ~TouchedBetween(req[e].rsid, e, h))
        => /\ req[h].status = 200
           /\ req[h].body.website_info.url = req[e].body.url
           /\ req[h].body.website_info.title = req[e].body.title
           /\ req[h].body.website_info.word_count = req[e].body.word_count
           /\ ~ChatSucceededBetween(req[e].rsid, e, h) => req[h].body.history = <<>>

\* a get-chat-history followed the extract of a page whose number of words
\* differs from its number of characters
C13_Witness ==
    \E e, h \in Reqs :
        /\ req[e].kind = "extract" /\ req[e].status = 200
        /\ req[h].kind = "history" /\ req[h].sid = req[e].rsid
        /\ e < h /\ ~TouchedBetween(req[e].rsid, e, h)
        /\ req[e].body.word_count = 2

\* C14: an extract-website whose fetch raised a RequestException called
\* requests.get once, is answered 400, was given no session id, and its last
\* step leaves website_cache and chat_sessions as they were.
C14_Failed ==
    \A r \in Reqs :
        req[r].fetch = "request_error" =>
            /\ req[r].status = 400
            /\ req[r].attempts = 1
            /\ req[r].rsid = NoSid
C14_Step ==
    \A r \in Reqs :
        (Finishes(r) /\ req'[r].fetch = "request_error") => StoreUnchanged
C15_Step ==
    \A s \in DOMAIN website_cache :
        ~ClearStepOn(s) =>
            /\ Has(website_cache', s)
            /\ website_cache'[s].url = website_cache[s].url
            /\ website_cache'[s].title = website_cache[s].title
            /\ website_cache'[s].content = website_cache[s].content
C15_ContentImmutable == [][C15_Step]_vars

\* C17: a chat that has not been answered yet was begun less than 45 seconds
\* ago: the answer, 408 included, comes before the client's timeout.
C17_AnsweredBeforeClientTimeout ==
    \A r \in Awaiting :
        now < (req[r].deadline - ModelTimeout) + ClientTimeout

\* C18: of two successful chats on one session, with nothing else done to the
\* session since its extract, the exchange of the one taken up first comes
\* first in the transcript.
C18_ReceivedOrder ==
    \A e, r1, r2 \in Reqs :
        (/\ req[e].kind = "extract" /\ req[e].status = 200
         /\ Involving(req[e].rsid) = {e, r1, r2}
         /\ e < r1 /\ r1 < r2
         /\ \A r \in {r1, r2} : req[r].kind = "chat" /\ req[r].status = 200)
        => chat_sessions[req[e].rsid] =
             << ChatExchange(req[r1].msg, req[r1].resp,
                             chat_sessions[req[e].rsid][1].timestamp),
                ChatExchange(req[r2].msg, req[r2].resp,
                             chat_sessions[req[e].rsid][2].timestamp) >>

\* C19: website_cache and chat_sessions hold the same session ids.
C19_SameSessionIds == DOMAIN website_cache = DOMAIN chat_sessions

\* a session was cleared while a chat on it is waiting for its model call
C19_Witness ==
    \E r \in Awaiting :
        /\ ~Has(website_cache, req[r].sid)
        /\ \E c \in Reqs : c > r /\ req[c].kind = "clear" /\ req[c].sid = req[r].sid

\* a URL of the form scheme://host or scheme://host/..., over UrlChars
WellFormed(url) ==
    \E i \in 1..Len(url), j \in 1..Len(url) :
        /\ i + 3 <= j
        /\ \A k \in 1..i : url[k] \in Alpha
        /\ SubSeq(url, i + 1, i + 3) = <<":", "/", "/">>
        /\ \A k \in (i + 4)..j : url[k] \in Alpha
        /\ j >= i + 4
        /\ j = Len(url) \/ url[j + 1] = "/"
\* a URL whose parse has no scheme or no host
MissingSchemeOrHost(url) ==
    /\ ~urlparse(url).raises
    /\ \/ urlparse(url).scheme = <<>>
       \/ hostname(urlparse(url).netloc) = <<>>

\* C16: a press of Load Website with an empty URL or a URL missing a scheme
\* or a host shows an error and sends no request to the backend; a press
\* with a well-formed scheme://host/... URL is not rejected by the validation.
C16_ValidationFirst ==
    (pf.fn = "load" /\ pf.done) =>
        /\ (pf.url = <<>> \/ MissingSchemeOrHost(pf.url))
             => ~pf.out.sent /\ pf.out.error # ""
        /\ WellFormed(pf.url)
             => pf.out.error \notin {"Please enter a URL", "Please enter a valid URL"}

\* C20: the front-end is never left processing, no message has had more than
\* one POST /chat, and when no rerun is due every message has had exactly one.
C20_OnePostPerMessage ==
    /\ ~session_state.processing
    /\ \A k \in 1..Len(fe.posts) :
         /\ fe.posts[k] <= 1
         /\ ~fe.rerun => fe.posts[k] = 1
====
